---- MODULE Spec2Model ----
(***************************************************************************)
(* Model of the static site generator in src/generator/src/main.rs:        *)
(* get_all_src (scanner), PageTriple::new (address resolver), Page::new    *)
(* (metadata extractor), render (render pipeline + writer) and main.       *)
(*                                                                         *)
(* A path is a sequence of tokens: "/" is the separator, "." the dot that  *)
(* separates stem and extension, every other token a run of ordinary       *)
(* characters.  <<"src","/","a","/","index",".","md">> is src/a/index.md.  *)
(***************************************************************************)
EXTENDS Integers, Sequences, FiniteSets, TLC

Sep == "/"
Dot == "."

None == [some |-> FALSE]
Some(v) == [some |-> TRUE, val |-> v]

\* ---------------------------------------------------------------- paths --
IsAbs(p) == Len(p) > 0 /\ p[1] = Sep

Last(s) == s[Len(s)]
Front(s) == SubSeq(s, 1, Len(s) - 1)

\* Path::components: split at separators, drop empty names and every "."
\* that is not the first name of a relative path.
RECURSIVE Comps(_, _, _, _)
Comps(p, cur, acc, abs) ==
    LET keep == cur # <<>> /\ ~(cur = <<Dot>> /\ (abs \/ acc # <<>>))
        acc2 == IF keep THEN Append(acc, cur) ELSE acc
    IN  IF p = <<>> THEN acc2
        ELSE IF Head(p) = Sep THEN Comps(Tail(p), <<>>, acc2, abs)
        ELSE Comps(Tail(p), Append(cur, Head(p)), acc, abs)

Components(p) == Comps(p, <<>>, <<>>, IsAbs(p))

RECURSIVE JoinNames(_)
JoinNames(cs) ==
    IF cs = <<>> THEN <<>>
    ELSE IF Len(cs) = 1 THEN cs[1]
    ELSE cs[1] \o <<Sep>> \o JoinNames(Tail(cs))

\* Path::join (PathBuf::push): an absolute argument replaces the receiver,
\* otherwise a separator is added unless the receiver is empty or ends in one.
PathJoin(p, q) ==
    IF IsAbs(q) THEN q
    ELSE IF p = <<>> \/ Last(p) = Sep THEN p \o q
    ELSE p \o <<Sep>> \o q

IsPrefix(s, t) == Len(s) <= Len(t) /\ SubSeq(t, 1, Len(s)) = s

\* Path::strip_prefix: component-wise, the remainder is a relative path.
StripPrefix(p, base) ==
    LET pc_ == Components(p)
        bc  == Components(base)
    IN  IF IsAbs(p) = IsAbs(base) /\ IsPrefix(bc, pc_)
        THEN Some(JoinNames(SubSeq(pc_, Len(bc) + 1, Len(pc_))))
        ELSE None

\* Path::parent: the path without its last component; None for "" and "/".
Parent(p) ==
    LET cs == Components(p)
    IN  IF cs = <<>> THEN None
        ELSE Some((IF IsAbs(p) THEN <<Sep>> ELSE <<>>) \o JoinNames(Front(cs)))

\* Path::file_name: the last component, None if there is none or it is "..".
FileName(p) ==
    LET cs == Components(p)
    IN  IF cs = <<>> \/ Last(cs) = <<Dot, Dot>> THEN None ELSE Some(Last(cs))

LastDot(n) ==
    LET ds == {i \in 1..Len(n) : n[i] = Dot}
    IN  IF ds = {} THEN 0 ELSE CHOOSE i \in ds : \A j \in ds : j <= i

\* std rsplit_file_at_dot: <<before, after>> of the last dot; a name without
\* a dot, or whose only dot is the first character, has no extension.
SplitFileAtDot(n) ==
    LET d == LastDot(n)
    IN  IF n = <<Dot, Dot>> THEN <<Some(n), None>>
        ELSE IF d = 0 THEN <<Some(n), None>>
        ELSE IF d = 1 THEN <<Some(n), None>>
        ELSE <<Some(SubSeq(n, 1, d - 1)), Some(SubSeq(n, d + 1, Len(n)))>>

FileStem(p) ==
    IF FileName(p).some THEN SplitFileAtDot(FileName(p).val)[1] ELSE None

Extension(p) ==
    IF FileName(p).some THEN SplitFileAtDot(FileName(p).val)[2] ELSE None

IndexHtml == <<"index", Dot, "html">>

\* PageTriple::new with the output path built from the directory alone.
PageTripleNewOutFromBase(src, src_dir, out_dir) ==
    LET file_stem == FileStem(src)
        rel       == StripPrefix(src, src_dir)
        base      == IF rel.some THEN Parent(rel.val) ELSE None
    IN  IF ~file_stem.some \/ ~rel.some \/ ~base.some
        THEN [panic |-> TRUE]
        ELSE LET is_index == file_stem.val = <<"index">>
                 irene    == IF is_index THEN base.val
                             ELSE PathJoin(base.val, file_stem.val)
             IN  [panic |-> FALSE,
                  src   |-> src,
                  out   |-> PathJoin(PathJoin(out_dir, base.val), IndexHtml),
                  uri   |-> PathJoin(<<Sep>>, irene)]

\* PageTriple::new with the index test made on the file name, not the stem.
PageTripleNewIndexByName(src, src_dir, out_dir) ==
    LET file_stem == FileStem(src)
        rel       == StripPrefix(src, src_dir)
        base      == IF rel.some THEN Parent(rel.val) ELSE None
    IN  IF ~file_stem.some \/ ~rel.some \/ ~base.some
        THEN [panic |-> TRUE]
        ELSE LET is_index == FileName(src).val = <<"index">>
                 irene    == IF is_index THEN base.val
                             ELSE PathJoin(base.val, file_stem.val)
             IN  [panic |-> FALSE,
                  src   |-> src,
                  out   |-> PathJoin(PathJoin(out_dir, irene), IndexHtml),
                  uri   |-> PathJoin(<<Sep>>, irene)]

\* PageTriple::new; panic |-> TRUE is the unwrap of a None.
PageTripleNew(src, src_dir, out_dir) ==
    LET file_stem == FileStem(src)
        rel       == StripPrefix(src, src_dir)
        base      == IF rel.some THEN Parent(rel.val) ELSE None
    IN  IF ~file_stem.some \/ ~rel.some \/ ~base.some
        THEN [panic |-> TRUE]
        ELSE LET is_index == file_stem.val = <<"index">>
                 irene    == IF is_index THEN base.val
                             ELSE PathJoin(base.val, file_stem.val)
             IN  [panic |-> FALSE,
                  src   |-> src,
                  out   |-> PathJoin(PathJoin(out_dir, irene), IndexHtml),
                  uri   |-> PathJoin(<<Sep>>, irene)]

\* ----------------------------------------------------------- file system --
MaxDepth == 2
MaxEntries == 3

DirNames   == {<<"a">>, <<"d", Dot, "md">>}
FileNames  == {<<"index", Dot, "md">>, <<"a", Dot, "md">>,
               <<"n", Dot, "txt">>, <<Dot, "md">>}
OtherNames == {<<"s", Dot, "md">>}

\* An entry of the source tree: the names of the directories from the source
\* root down to its directory, its own name and its kind ("other" is an entry
\* that is neither a directory nor a regular file).
DirOf(e) == e.parent \o <<e.name>>

DirsOf(t) == {<<>>} \cup {DirOf(e) : e \in {x \in t : x.kind = "dir"}}

Extensions(t) ==
    {e \in ([parent : DirsOf(t), name : DirNames, kind : {"dir"}]
              \cup [parent : DirsOf(t), name : FileNames, kind : {"file"}]
              \cup [parent : DirsOf(t), name : OtherNames, kind : {"other"}]) :
        /\ \A x \in t : ~(x.parent = e.parent /\ x.name = e.name)
        /\ e.kind = "dir" => Len(e.parent) < MaxDepth}

RECURSIVE Trees(_)
Trees(n) ==
    IF n = 0 THEN {{}}
    ELSE LET T == Trees(n - 1)
         IN  T \cup UNION {{t \cup {e} : e \in Extensions(t)} : t \in T}

SrcDirs == {<<"src">>, <<Sep, "w", Sep>>}
out_dir == <<"public">>

DefaultTemplate == "base-1.html"
DefaultTitle == "NO TITLE"
LayoutSets == {{"base-1.html"}, {"post.html"}}

\* ------------------------------------------------------ document content --
Str(s) == [t |-> "str", v |-> s]
Int5 == [t |-> "int", v |-> "5"]
Absent == [t |-> "absent", v |-> ""]

\* The value of a front matter block: text that is no YAML mapping (wf is
\* FALSE), or a mapping in which each of the keys title and template is
\* absent, a string or a number.
YamlValues ==
    {[wf |-> FALSE, title |-> Absent, template |-> Absent]}
      \cup [wf : {TRUE},
            title : {Absent, Str("Hi"), Int5},
            template : {Absent, Str("post.html"), Int5}]

NoValue == [wf |-> FALSE, title |-> Absent, template |-> Absent]

Bodies == {"# Hello", "text"}

\* What fs::read_to_string returns: the first node markdown::to_mdast gives
\* for it (none for an empty document) and the body text.
Contents ==
    [node : {"None", "Heading", "Toml"}, value : {NoValue}, body : Bodies]
      \cup [node : {"Yaml"}, value : YamlValues, body : Bodies]

\* serde_yaml::from_str::<FrontMatter>: both fields are required strings.
FromStrFrontMatter(value) ==
    IF value.wf /\ value.title.t = "str" /\ value.template.t = "str"
    THEN Some([title |-> value.title.v, template |-> value.template.v])
    ELSE None

\* Page::new with each field defaulted on its own.
PageOfPerField(content) ==
    LET v == content.value
        isYaml == content.node = "Yaml" /\ v.wf
    IN  [title    |-> IF isYaml /\ v.title.t = "str" THEN v.title.v
                      ELSE DefaultTitle,
         template |-> IF isYaml /\ v.template.t = "str" THEN v.template.v
                      ELSE DefaultTemplate,
         content  |-> content]

\* Page::new, lines 82-104: the front matter of the first node, else the
\* default pair.
PageOf(content) ==
    LET yaml == IF content.node = "Yaml" THEN Some(content.value) ELSE None
        fm   == IF yaml.some THEN FromStrFrontMatter(yaml.val) ELSE None
        res  == IF fm.some THEN fm.val
                ELSE [title |-> DefaultTitle, template |-> DefaultTemplate]
    IN  [title |-> res.title, template |-> res.template, content |-> content]

\* markdown::to_html_with_options with the frontmatter construct on: the
\* front matter block is dropped, the body is compiled.
ToHtml(content) == <<"html", content.body>>

\* tera.render with autoescape off: the template with both slots filled.
TeraRender(template, title, html) ==
    [layout |-> template, title |-> title, content |-> html]

\* ---------------------------------------------------------------- state --
VARIABLES
    tree,          \* the source tree on disk
    src_dir,       \* main: the source root (argument 1, else "src")
    tera,          \* main: names of the templates Tera::new loaded
    pc,            \* position of the run
    err,           \* the fatal error that ended the run, "none" if none
    dirstack,      \* get_all_src: directories still to read
    visited,       \* directories get_all_src has read, in order
    skipped,       \* TRUE once read_dir dropped an unreadable entry
    srcs,          \* get_all_src: out, then main: srcs
    cur,           \* main: index in srcs of the document of this iteration
    triple,        \* main: PageTriple of the document
    page,          \* main: Page of the document
    content_html,  \* render: compiled markdown
    rendered,      \* render: output of the template
    outDirs,       \* directories that exist under the output root
    outFiles,      \* files under the output root: path and bytes
    log,           \* the steps completed so far, in order
    targ,          \* arguments of a lone PageTriple::new call
    tres           \* its result

vars == <<tree, src_dir, tera, pc, err, dirstack, visited, skipped, srcs, cur,
          triple, page, content_html, rendered, outDirs, outFiles, log,
          targ, tres>>

NoTriple == [panic |-> FALSE, src |-> <<>>, out |-> <<>>, uri |-> <<>>]
NoPage == [title |-> "", template |-> "",
           content |-> [node |-> "None", value |-> NoValue, body |-> ""]]
NoRender == [layout |-> "", title |-> "", content |-> <<>>]
NoArg == [src |-> <<>>, src_dir |-> <<>>, out_dir |-> <<>>,
          dirs |-> <<>>, name |-> <<>>, under |-> FALSE]

Orderings(S) ==
    {f \in [1..Cardinality(S) -> S] : \A i, j \in DOMAIN f : f[i] = f[j] => i = j}

\* The operating system's view of the tree: the entries of directory dir.
ReadDir(dir) == {e \in tree : Components(src_dir) \o e.parent = Components(dir)}

\* DirEntry::path is the directory joined with the entry's file name.
EntryPath(dir, e) == PathJoin(dir, e.name)

\* get_all_src, line 190: path.is_dir().
IsSubdir(e) == e.kind = "dir"

\* The md filter without the is_file test.
IsMdFileAnyKind(e) == Extension(e.name) = Some(<<"md">>)

\* get_all_src, lines 197-201: a regular file whose extension is "md".
IsMdFile(e) == e.kind = "file" /\ Extension(e.name) = Some(<<"md">>)

Event(d, s) == [doc |-> d, step |-> s, path |-> <<>>, bytes |-> NoRender]

\* render without its last statement, and with the layout looked up first.
RenderOrderNoWrite == <<"mkdir", "html", "template">>
RenderOrderLayoutFirst == <<"html", "template", "mkdir", "write">>

RenderOrder == <<"mkdir", "html", "template", "write">>

\* The statement of render that follows step s; after the last one render
\* returns Ok(()) and the for loop of main goes on.
AfterStep(s) ==
    LET i == CHOOSE k \in DOMAIN RenderOrder : RenderOrder[k] = s
    IN  IF i < Len(RenderOrder) THEN RenderOrder[i + 1] ELSE "next"

\* An error that is recorded while the for loop goes on.
FailContinue(kind) == pc' = "next" /\ err' = kind

\* A `?` on an Err, an unwrap of an Err or None, a panic!: the process ends.
Fail(kind) == pc' = "failed" /\ err' = kind

\* Every directory create_dir_all makes sure exists: p and what is above it.
RECURSIVE Ancestors(_)
Ancestors(p) ==
    IF Components(p) = <<>> THEN {}
    ELSE {p} \cup (IF Parent(p).some THEN Ancestors(Parent(p).val) ELSE {})

\* ----------------------------------------------------------------- main --
Init ==
    /\ tree \in Trees(MaxEntries)
    /\ src_dir \in SrcDirs
    /\ tera \in LayoutSets
    /\ pc = "start"
    /\ err = "none"
    /\ dirstack = <<>>
    /\ visited = <<>>
    /\ skipped = FALSE
    /\ srcs = <<>>
    /\ cur = 0
    /\ triple = NoTriple
    /\ page = NoPage
    /\ content_html = <<>>
    /\ rendered = NoRender
    /\ outDirs = {}
    /\ outFiles = {}
    /\ log = <<>>
    /\ targ = NoArg
    /\ tres = NoTriple

\* main, lines 154-169: make the output root unless it is a directory, load
\* the templates, enter get_all_src (lines 182-184).
Setup ==
    /\ pc = "start"
    /\ \E is_dir \in BOOLEAN, outcome \in {"ok", "create_dir", "tera"} :
         /\ (outcome = "create_dir") => ~is_dir
         /\ IF outcome = "ok"
            THEN /\ pc' = "scan"
                 /\ dirstack' = <<src_dir>>
                 /\ outDirs' = {out_dir}
                 /\ err' = err
            ELSE /\ Fail(outcome)
                 /\ dirstack' = dirstack
                 /\ outDirs' = IF outcome = "tera" THEN {out_dir} ELSE {}
    /\ UNCHANGED <<tree, src_dir, tera, visited, skipped, srcs, cur, triple,
                   page, content_html, rendered, outFiles, log, targ, tres>>

\* get_all_src, lines 185-203: one iteration of the while loop. Both
\* read_dir calls return the entries in an order of the system's choosing
\* and drop the entries that cannot be read.
ScanDir ==
    /\ pc = "scan"
    /\ dirstack # <<>>
    /\ LET dir == Last(dirstack)
       IN  \E ok \in BOOLEAN :
             IF ok
             THEN \E bad1 \in SUBSET {e \in ReadDir(dir) : IsSubdir(e)},
                     bad2 \in SUBSET {e \in ReadDir(dir) : IsMdFile(e)} :
                  \E subdirs \in Orderings({EntryPath(dir, e) :
                          e \in {x \in ReadDir(dir) \ bad1 : IsSubdir(x)}}),
                     md \in Orderings({EntryPath(dir, e) :
                          e \in {x \in ReadDir(dir) \ bad2 : IsMdFile(x)}}) :
                    /\ dirstack' = Front(dirstack) \o subdirs
                    /\ srcs' = srcs \o md
                    /\ visited' = Append(visited, dir)
                    /\ skipped' = (skipped \/ bad1 # {} \/ bad2 # {})
                    /\ log' = log \o [i \in 1..Len(md) |->
                                        Event(Len(srcs) + i, "scan")]
                    /\ UNCHANGED <<pc, err>>
             ELSE /\ Fail("read_dir")
                  /\ UNCHANGED <<dirstack, srcs, visited, skipped, log>>
    /\ UNCHANGED <<tree, src_dir, tera, cur, triple, page, content_html,
                   rendered, outDirs, outFiles, targ, tres>>

\* get_all_src, line 205, and main, line 169: the stack is empty, Ok(out).
ScanDone ==
    /\ pc = "scan"
    /\ dirstack = <<>>
    /\ pc' = "next"
    /\ UNCHANGED <<tree, src_dir, tera, err, dirstack, visited, skipped, srcs,
                   cur, triple, page, content_html, rendered, outDirs,
                   outFiles, log, targ, tres>>

\* main, lines 170-171: the next document of the for loop and its triple.
Resolve ==
    /\ pc = "next"
    /\ cur < Len(srcs)
    /\ cur' = cur + 1
    /\ LET t == PageTripleNew(srcs[cur + 1], src_dir, out_dir)
       IN  IF t.panic
           THEN Fail("unwrap") /\ UNCHANGED <<triple, log>>
           ELSE /\ triple' = t
                /\ pc' = "page"
                /\ err' = err
                /\ log' = Append(log, Event(cur + 1, "resolve"))
    /\ UNCHANGED <<tree, src_dir, tera, dirstack, visited, skipped, srcs, page,
                   content_html, rendered, outDirs, outFiles, targ, tres>>

\* main, line 172: Page::new reads the file, parses it and takes the
\* metadata; a read or parse error panics.
PageNew ==
    /\ pc = "page"
    /\ \E outcome \in {"ok", "read_to_string", "to_mdast"} :
         IF outcome = "ok"
         THEN \E content \in Contents :
                /\ page' = PageOf(content)
                /\ pc' = RenderOrder[1]
                /\ err' = err
                /\ log' = Append(log, Event(cur, "page"))
         ELSE Fail(outcome) /\ UNCHANGED <<page, log>>
    /\ UNCHANGED <<tree, src_dir, tera, dirstack, visited, skipped, srcs, cur,
                   triple, content_html, rendered, outDirs, outFiles, targ,
                   tres>>

\* render, line 132: create_dir_all of the directory of the output file.
Mkdir ==
    /\ pc = "mkdir"
    /\ \E ok \in BOOLEAN :
         IF ok
         THEN /\ outDirs' = outDirs \cup Ancestors(Parent(triple.out).val)
              /\ pc' = AfterStep("mkdir")
              /\ err' = err
              /\ log' = Append(log, Event(cur, "mkdir"))
         ELSE Fail("create_dir_all") /\ UNCHANGED <<outDirs, log>>
    /\ UNCHANGED <<tree, src_dir, tera, dirstack, visited, skipped, srcs, cur,
                   triple, page, content_html, rendered, outFiles, targ, tres>>

\* render, lines 135-138: the markdown is compiled; an Err is used as text.
Html ==
    /\ pc = "html"
    /\ content_html' = ToHtml(page.content)
    /\ pc' = AfterStep("html")
    /\ log' = Append(log, Event(cur, "html"))
    /\ UNCHANGED <<tree, src_dir, tera, err, dirstack, visited, skipped, srcs,
                   cur, triple, page, rendered, outDirs, outFiles, targ, tres>>

\* render, lines 141-145: tera.render(...).unwrap() panics on a template
\* name Tera does not hold.
Template ==
    /\ pc = "template"
    /\ IF page.template \in tera
       THEN /\ rendered' = TeraRender(page.template, page.title, content_html)
            /\ pc' = AfterStep("template")
            /\ err' = err
            /\ log' = Append(log, Event(cur, "template"))
       ELSE Fail("LayoutNotFound") /\ UNCHANGED <<rendered, log>>
    /\ UNCHANGED <<tree, src_dir, tera, dirstack, visited, skipped, srcs, cur,
                   triple, page, content_html, outDirs, outFiles, targ, tres>>

Truncated == [layout |-> "", title |-> "", content |-> <<"truncated">>]

\* render, line 148: fs::write replaces the file; it fails when the
\* directory is missing, and a failed write may leave a truncated file.
Write ==
    /\ pc = "write"
    /\ LET others == {f \in outFiles : f.path # triple.out}
       IN  \E outcome \in {"ok", "unchanged", "truncated"} :
             /\ (outcome = "ok") => Parent(triple.out).val \in outDirs
             /\ (outcome = "truncated") => Parent(triple.out).val \in outDirs
             /\ IF outcome = "ok"
                THEN /\ outFiles' = others \cup
                          {[path |-> triple.out, bytes |-> rendered]}
                     /\ pc' = AfterStep("write")
                     /\ err' = err
                     /\ log' = Append(log, [doc |-> cur, step |-> "write",
                                  path |-> triple.out, bytes |-> rendered])
                ELSE /\ Fail("write")
                     /\ outFiles' = IF outcome = "truncated"
                           THEN others \cup
                                {[path |-> triple.out, bytes |-> Truncated]}
                           ELSE outFiles
                     /\ log' = log
    /\ UNCHANGED <<tree, src_dir, tera, dirstack, visited, skipped, srcs, cur,
                   triple, page, content_html, rendered, outDirs, targ, tres>>

\* main, line 176: the for loop is over, Ok(()).
Finish ==
    /\ pc = "next"
    /\ cur = Len(srcs)
    /\ pc' = "done"
    /\ UNCHANGED <<tree, src_dir, tera, err, dirstack, visited, skipped, srcs,
                   cur, triple, page, content_html, rendered, outDirs,
                   outFiles, log, targ, tres>>

Next ==
    \/ Setup
    \/ ScanDir
    \/ ScanDone
    \/ Resolve
    \/ PageNew
    \/ Mkdir
    \/ Html
    \/ Template
    \/ Write
    \/ Finish

Spec == Init /\ [][Next]_vars

\* ------------------------------------------- PageTriple::new on its own --
TRoots == {<<"src">>, <<"src", Sep>>, <<Sep, "w">>}
TOuts == {<<"public">>, <<Sep, "o", Sep>>}

RECURSIVE DirSeqs(_)
DirSeqs(n) ==
    IF n = 0 THEN {<<>>}
    ELSE DirSeqs(n - 1) \cup
         {Append(d, x) : d \in {y \in DirSeqs(n - 1) : Len(y) = n - 1},
                         x \in DirNames}

\* File names by their parts: a stem and, if there is one, an extension.
TNames ==
    {[stem |-> <<"index">>, ext |-> Some(<<"md">>)],
     [stem |-> <<"a">>, ext |-> Some(<<"md">>)],
     [stem |-> <<"index", Dot, "x">>, ext |-> Some(<<"md">>)],
     [stem |-> <<"n">>, ext |-> Some(<<"txt">>)],
     [stem |-> <<Dot, "md">>, ext |-> None]}

NameOf(n) == IF n.ext.some THEN n.stem \o <<Dot>> \o n.ext.val ELSE n.stem

TArgs ==
    {[src     |-> PathJoin(PathJoin(r2, JoinNames(d)), NameOf(n)),
      src_dir |-> r,
      out_dir |-> o,
      dirs    |-> d,
      name    |-> n.stem,
      under   |-> (IsAbs(r) = IsAbs(r2) /\ Components(r) = Components(r2))] :
        r \in TRoots, r2 \in TRoots, o \in TOuts,
        d \in DirSeqs(MaxDepth), n \in TNames}

TInit ==
    /\ targ \in TArgs
    /\ tres = NoTriple
    /\ pc = "call"
    /\ tree = {}
    /\ src_dir = <<"src">>
    /\ tera = {}
    /\ err = "none"
    /\ dirstack = <<>>
    /\ visited = <<>>
    /\ skipped = FALSE
    /\ srcs = <<>>
    /\ cur = 0
    /\ triple = NoTriple
    /\ page = NoPage
    /\ content_html = <<>>
    /\ rendered = NoRender
    /\ outDirs = {}
    /\ outFiles = {}
    /\ log = <<>>

TResolve ==
    /\ pc = "call"
    /\ tres' = PageTripleNew(targ.src, targ.src_dir, targ.out_dir)
    /\ pc' = "returned"
    /\ UNCHANGED <<tree, src_dir, tera, err, dirstack, visited, skipped, srcs,
                   cur, triple, page, content_html, rendered, outDirs,
                   outFiles, log, targ>>

TNext == TResolve

TripleSpec == TInit /\ [][TNext]_vars

\* =============================================================== claims ==

\* C1: for a source path under the source root, PageTriple::new gives a uri
\* that starts with "/" and an out that is the output root joined with the
\* uri less its leading slash joined with index.html; the index document of
\* the root has uri "/" and out <output root>/index.html.
C1_UriRootedOutUnderRoot ==
    (pc = "returned" /\ targ.under) =>
        /\ ~tres.panic
        /\ Len(tres.uri) >= 1 /\ Head(tres.uri) = Sep
        /\ tres.out = PathJoin(PathJoin(targ.out_dir, Tail(tres.uri)), IndexHtml)
        /\ Components(tres.out) =
             Components(targ.out_dir) \o Components(Tail(tres.uri))
               \o <<IndexHtml>>
        /\ (targ.dirs = <<>> /\ targ.name = <<"index">>) =>
             /\ tres.uri = <<Sep>>
             /\ Components(tres.out) = Components(targ.out_dir) \o <<IndexHtml>>

C1_Witness ==
    /\ pc = "returned" /\ targ.under /\ ~tres.panic
    /\ targ.dirs = <<>> /\ targ.name = <<"index">>
    /\ tres.uri = <<Sep>>

\* C2: a file whose stem is exactly "index" maps to the address of its
\* directory relative to the source root, any other file with stem X to
\* <directory>/X; the address mirrors the nesting of the directories.
C2_IndexMapsToDirectory ==
    (pc = "returned" /\ targ.under) =>
        /\ ~tres.panic
        /\ IsAbs(tres.uri)
        /\ Components(tres.uri) =
             IF targ.name = <<"index">> THEN targ.dirs
             ELSE Append(targ.dirs, targ.name)

C2_Witness ==
    /\ pc = "returned" /\ targ.under /\ ~tres.panic
    /\ Len(targ.dirs) = 2 /\ targ.name = <<"a">>
    /\ Components(tres.uri) = Append(targ.dirs, <<"a">>)

UriOf(i) == PageTripleNew(srcs[i], src_dir, out_dir).uri
OutOf(i) == PageTripleNew(srcs[i], src_dir, out_dir).out

\* C3: no two distinct documents the scanner returned resolve to the same
\* public address (nor, then, to the same output path).
C3_NoAddressCollision ==
    \A i, j \in 1..Len(srcs) :
        (i # j /\ srcs[i] # srcs[j]) => (UriOf(i) # UriOf(j) /\ OutOf(i) # OutOf(j))

Supplied(content) ==
    /\ content.node = "Yaml"
    /\ content.value.wf
    /\ content.value.title.t = "str"
    /\ content.value.template.t = "str"

\* C4: the metadata Page::new resolves is the pair of the header when the
\* first node is a header block with both title and template, and in every
\* other case the default pair ("NO TITLE", "base-1.html"), never one field
\* of each; the run goes on to render the document.
C4_MetadataAllOrNothing ==
    /\ page # NoPage =>
         IF Supplied(page.content)
         THEN /\ page.title = page.content.value.title.v
              /\ page.template = page.content.value.template.v
         ELSE /\ page.title = "NO TITLE"
              /\ page.template = "base-1.html"
    /\ (log # <<>> /\ Last(log).step = "page") =>
         /\ page # NoPage
         /\ pc = "mkdir" \/ (pc = "failed" /\ err = "create_dir_all")

C4_Witness ==
    /\ log # <<>> /\ Last(log).step = "page" /\ pc = "mkdir"
    /\ page.content.node = "Yaml"
    /\ page.content.value.title = Str("Hi")
    /\ page.content.value.template = Absent
    /\ page.title = "NO TITLE"

\* C5: when the layout of a document is not in the LayoutSet the run ends
\* and no write to the output path of that document happened in the run.
C5_NoWriteToPathOnLayoutNotFound ==
    err = "LayoutNotFound" =>
        \A k \in DOMAIN log :
            ~(log[k].step = "write" /\ log[k].path = triple.out)

\* C6: a fatal error ends the run at once: once it has occurred no further
\* step of any document is executed and nothing more is written.
C6_FatalErrorStopsRun ==
    /\ [](err # "none" => pc = "failed")
    /\ [][err # "none" =>
            UNCHANGED <<pc, cur, srcs, log, outDirs, outFiles>>]_vars

C6_Witness ==
    /\ err = "LayoutNotFound"
    /\ cur < Len(srcs)
    /\ pc = "failed"

\* Events come one document at a time: the first is of document 1, and an
\* event is followed by one of the same document or, if it is the write of
\* its document, by one of the next document.
OneAtATime(events) ==
    /\ events # <<>> => events[1].doc = 1
    /\ \A l \in 1..(Len(events) - 1) :
         \/ events[l + 1].doc = events[l].doc
         \/ events[l + 1].doc = events[l].doc + 1 /\ events[l].step = "write"

NotScan(e) == e.step # "scan"

\* C7 as stated: every step of a document, its scan included, is done
\* before the next document is started; no step of document i+1 comes before
\* the write of document i.
C7_OneAtATimeScanIncluded == OneAtATime(log)

\* C7 amended: the scanner enumerates every document first; after that each
\* document is resolved, read, parsed, rendered and written before the next
\* one is started.
C7_OneAtATimeAfterScan ==
    /\ OneAtATime(SelectSeq(log, NotScan))
    /\ \A l \in 1..(Len(log) - 1) :
         log[l].step # "scan" => log[l + 1].step # "scan"

C7_Witness ==
    \E l \in DOMAIN log : log[l].step = "write" /\ log[l].doc = 2

NoDup(s) == \A i, j \in DOMAIN s : s[i] = s[j] => i = j
Range(s) == {s[i] : i \in DOMAIN s}

HasMdExt(name) ==
    /\ Len(name) >= 3
    /\ name[Len(name) - 1] = Dot
    /\ name[Len(name)] = "md"

\* get_all_src has just returned Ok(out) to main.
ScanReturned == pc = "next" /\ cur = 0

\* C8: when every directory can be listed in full get_all_src terminates
\* (the directories read and still to read never outnumber the directories
\* of the tree, and each iteration reads one) and returns exactly the
\* regular files under the root whose extension is md, each once; every
\* directory is read exactly once, and an empty directory adds nothing.
C8_ScanExact ==
    /\ pc = "scan" =>
         /\ NoDup(visited) /\ NoDup(srcs) /\ NoDup(dirstack)
         /\ Len(visited) + Len(dirstack) <= Cardinality(DirsOf(tree))
    /\ ScanReturned =>
         /\ NoDup(visited) /\ NoDup(srcs)
         /\ ~skipped =>
              /\ {Components(p) : p \in Range(srcs)} =
                   {Components(src_dir) \o DirOf(e) :
                      e \in {x \in tree : x.kind = "file" /\ HasMdExt(x.name)}}
              /\ {Components(p) : p \in Range(visited)} =
                   {Components(src_dir) \o d : d \in DirsOf(tree)}
              /\ Len(visited) = Cardinality(DirsOf(tree))

C8_Witness ==
    /\ ScanReturned /\ ~skipped
    /\ \E e \in tree : e.kind = "dir" /\ \A x \in tree : x.parent # DirOf(e)
    /\ \E e \in tree : e.kind = "file" /\ HasMdExt(e.name) /\ e.parent # <<>>
    /\ Len(srcs) = 1

\* C9: when a run ends without a fatal error every document the scanner
\* found has its own rendered output at <output root>/<address>/index.html.
C9_EveryDocumentHasItsPage ==
    pc = "done" =>
        \A i \in 1..Len(srcs) :
            \E k \in DOMAIN log :
                /\ log[k].step = "write" /\ log[k].doc = i
                /\ log[k].path = OutOf(i)
                /\ [path |-> OutOf(i), bytes |-> log[k].bytes] \in outFiles

RenderSteps == {"mkdir", "html", "template", "write"}

\* The render steps done for document d, in the order they were done.
RenderStepsOf(d) ==
    LET es == SelectSeq(log, LAMBDA e : e.doc = d /\ e.step \in RenderSteps)
    IN  [i \in DOMAIN es |-> es[i].step]

====
